---- MODULE Spec2Model ----
(***************************************************************************)
(* Model of the protein-visualizer core: the PDB record parser (parsePDB)  *)
(* and the geometry helpers (centerProtein, getBoundingBox,                *)
(* getMaxDimension) of src/src/utils/proteinGeometry.js.                   *)
(*                                                                         *)
(* Representation choices                                                  *)
(*  - A JavaScript string is a sequence of one-character strings, so that  *)
(*    substring, trim, startsWith and split are computed character by      *)
(*    character as the engine computes them.                               *)
(*  - A JavaScript number is either the marker NaN or an exact rational    *)
(*    n/d in lowest terms.  Arithmetic is exact: binary rounding, overflow *)
(*    to Infinity and the sign of zero are not represented.  The input     *)
(*    alphabet has no "Infinity" literal and no hexadecimal prefix.        *)
(*  - Objects live in a heap (objs), arrays in a second heap (arrs), both  *)
(*    addressed by index, so that identity and mutation are observable.    *)
(***************************************************************************)
EXTENDS Integers, Sequences, FiniteSets, TLC

VARIABLES pdbText, srcLines, parsed, pc, objs, arrs, last,
          backboneAtoms, proteinInfo, showBackbone, showAtoms, group, removed,
          aminoAcidColors, chainColors, readers, selected, alerted

vars == <<pdbText, srcLines, parsed, pc, objs, arrs, last,
          backboneAtoms, proteinInfo, showBackbone, showAtoms, group, removed,
          aminoAcidColors, chainColors, readers, selected, alerted>>

parseVars == <<pdbText, srcLines, parsed, pc>>

geomVars == <<objs, arrs, last>>

\* the state of App (useState), the children of the Protein group and the
\* objects the last run of the Protein effect took out of the group
appVars ==
  <<backboneAtoms, proteinInfo, showBackbone, showAtoms, group, removed>>

\* the two colour tables of the module, which are mutable objects
tableVars == <<aminoAcidColors, chainColors>>

\* the FileReaders whose read is under way, in the order of their creation,
\* the text of the file selected last, and whether the error alert was shown
uploadVars == <<readers, selected, alerted>>

\* useState(null): null is the record with null = TRUE
Null(empty) == [null |-> TRUE, value |-> empty]

Loaded(v) == [null |-> FALSE, value |-> v]

\* the initial values of the four useState calls; no Protein group yet
NoApp ==
  /\ backboneAtoms = Null(<<>>)
  /\ proteinInfo = Null([totalAtoms |-> 0, residueCount |-> 0,
                         chainCount |-> 0, chains |-> <<>>])
  /\ showBackbone = TRUE
  /\ showAtoms = TRUE
  /\ group = <<>>
  /\ removed = <<>>

\* an object literal as the function from its own keys to their values
ObjectOf(pairs) ==
  [k \in {p[1] : p \in pairs} |-> (CHOOSE p \in pairs : p[1] = k)[2]]

\* export const aminoAcidColors = {...}
AminoAcidColors ==
  ObjectOf(
  {<<<<"A", "L", "A">>, 16753920>>,
   <<<<"V", "A", "L">>, 16753920>>,
   <<<<"L", "E", "U">>, 16753920>>,
   <<<<"I", "L", "E">>, 16753920>>,
   <<<<"M", "E", "T">>, 16753920>>,
   <<<<"P", "H", "E">>, 16753920>>,
   <<<<"T", "R", "P">>, 16753920>>,
   <<<<"P", "R", "O">>, 16753920>>,
   <<<<"G", "L", "Y">>, 16753920>>,
   <<<<"S", "E", "R">>, 65280>>,
   <<<<"T", "H", "R">>, 65280>>,
   <<<<"T", "Y", "R">>, 65280>>,
   <<<<"A", "S", "N">>, 65280>>,
   <<<<"G", "L", "N">>, 65280>>,
   <<<<"C", "Y", "S">>, 65280>>,
   <<<<"L", "Y", "S">>, 255>>,
   <<<<"A", "R", "G">>, 255>>,
   <<<<"H", "I", "S">>, 8421631>>,
   <<<<"A", "S", "P">>, 16711680>>,
   <<<<"G", "L", "U">>, 16711680>>,
   <<<<"d", "e", "f", "a", "u", "l", "t">>, 8421504>>})

\* export const chainColors = {...}
ChainColors ==
  ObjectOf(
  {<<<<"A">>, 3447003>>,
   <<<<"B">>, 15158332>>,
   <<<<"C">>, 3066993>>,
   <<<<"D">>, 15965202>>,
   <<<<"E">>, 10181046>>,
   <<<<"F">>, 1752220>>,
   <<<<"G">>, 15277667>>,
   <<<<"H">>, 48340>>,
   <<<<"I">>, 16733986>>,
   <<<<"J">>, 7951688>>,
   <<<<"d", "e", "f", "a", "u", "l", "t">>, 9807270>>})

\* the tables as the module creates them
NewTables ==
  /\ aminoAcidColors = AminoAcidColors
  /\ chainColors = ChainColors

\* no file selected yet
NoUpload ==
  /\ readers = <<>>
  /\ selected = Null(<<>>)
  /\ alerted = FALSE

(***************************************************************************)
(* Bounds                                                                  *)
(***************************************************************************)
MaxLines == 2

MaxAtoms == 3

MaxCentered == 2

\* FileReaders reading at the same time
MaxReads == 2

(***************************************************************************)
(* Numbers                                                                 *)
(***************************************************************************)
Abs(i) == IF i < 0 THEN -i ELSE i

RECURSIVE GCD(_, _)
GCD(a, b) == IF b = 0 THEN a ELSE GCD(b, a % b)

NaN == [nan |-> TRUE, n |-> 0, d |-> 1]

Rat(n, d) ==
  LET g == GCD(Abs(n), d)
  IN  [nan |-> FALSE, n |-> n \div g, d |-> d \div g]

Num(i) == Rat(i, 1)

IsNaN(a) == a.nan

NumAdd(a, b) ==
  IF a.nan \/ b.nan THEN NaN ELSE Rat(a.n * b.d + b.n * a.d, a.d * b.d)

NumSub(a, b) ==
  IF a.nan \/ b.nan THEN NaN ELSE Rat(a.n * b.d - b.n * a.d, a.d * b.d)

NumDiv(a, k) ==
  IF a.nan \/ k = 0 THEN NaN ELSE Rat(a.n, a.d * k)

NumLess(a, b) == ~a.nan /\ ~b.nan /\ a.n * b.d < b.n * a.d

NumLeq(a, b) == ~a.nan /\ ~b.nan /\ a.n * b.d <= b.n * a.d

\* variant: the smaller value is picked by comparison alone, so a NaN
\* operand that is not the first one is passed over
MathMin_Compare(a, b) == IF NumLess(b, a) THEN b ELSE a

MathMin(a, b) ==
  IF a.nan \/ b.nan THEN NaN ELSE IF NumLess(b, a) THEN b ELSE a

MathMax(a, b) ==
  IF a.nan \/ b.nan THEN NaN ELSE IF NumLess(a, b) THEN b ELSE a

RECURSIVE Pow10(_)
Pow10(k) == IF k = 0 THEN 1 ELSE 10 * Pow10(k - 1)

(***************************************************************************)
(* Strings                                                                 *)
(***************************************************************************)
NL == "\n"

IsSpace(c) == c \in {" ", "\t", "\r", "\n"}

Digits == <<"0", "1", "2", "3", "4", "5", "6", "7", "8", "9">>

IsDigit(c) == \E k \in 1..10 : Digits[k] = c

DigitVal(c) == (CHOOSE k \in 1..10 : Digits[k] = c) - 1

MinInt(a, b) == IF a < b THEN a ELSE b

\* variant: a range that reaches past the end of the string gives ""
Substring_EmptyPastEnd(s, start, end) ==
  IF end > Len(s) THEN <<>> ELSE SubSeq(s, start + 1, end)

\* String.prototype.substring(start, end) with 0 <= start <= end
Substring(s, start, end) ==
  SubSeq(s, MinInt(start, Len(s)) + 1, MinInt(end, Len(s)))

RECURSIVE TrimStart(_)
TrimStart(s) ==
  IF s # <<>> /\ IsSpace(Head(s)) THEN TrimStart(Tail(s)) ELSE s

RECURSIVE TrimEnd(_)
TrimEnd(s) ==
  IF s # <<>> /\ IsSpace(s[Len(s)])
  THEN TrimEnd(SubSeq(s, 1, Len(s) - 1))
  ELSE s

Trim(s) == TrimEnd(TrimStart(s))

StartsWith(s, p) == Len(s) >= Len(p) /\ SubSeq(s, 1, Len(p)) = p

\* String.prototype.indexOf('\n') as a 1-based position, 0 when absent
IndexOfNL(s) ==
  IF \E i \in 1..Len(s) : s[i] = NL
  THEN CHOOSE i \in 1..Len(s) :
         s[i] = NL /\ \A j \in 1..(i - 1) : s[j] # NL
  ELSE 0

\* String.prototype.split('\n'): the pieces between consecutive newlines,
\* always at least one piece
RECURSIVE Split(_)
Split(s) ==
  LET i == IndexOfNL(s)
  IN  IF i = 0 THEN <<s>>
      ELSE <<SubSeq(s, 1, i - 1)>> \o Split(SubSeq(s, i + 1, Len(s)))

(***************************************************************************)
(* parseInt / parseFloat                                                   *)
(***************************************************************************)
RECURSIVE CountDigits(_)
CountDigits(s) ==
  IF s # <<>> /\ IsDigit(Head(s)) THEN 1 + CountDigits(Tail(s)) ELSE 0

RECURSIVE DigitsValue(_)
DigitsValue(s) ==
  IF s = <<>> THEN 0
  ELSE 10 * DigitsValue(SubSeq(s, 1, Len(s) - 1)) + DigitVal(s[Len(s)])

Drop(s, k) == SubSeq(s, k + 1, Len(s))

HasSign(s) == s # <<>> /\ Head(s) \in {"+", "-"}

IsNeg(s) == s # <<>> /\ Head(s) = "-"

\* parseInt(string) with no radix argument: leading whitespace is skipped,
\* an optional sign and the longest run of decimal digits are read, and
\* whatever follows is ignored; no digit at all gives NaN.
ParseInt(s0) ==
  LET s    == TrimStart(s0)
      body == IF HasSign(s) THEN Tail(s) ELSE s
      k    == CountDigits(body)
      v    == DigitsValue(SubSeq(body, 1, k))
  IN  IF k = 0 THEN NaN ELSE Num(IF IsNeg(s) THEN -v ELSE v)

\* variant: the whole text must be a number, as Number(string) requires
ParseFloat_WholeText(s0) ==
  LET s    == TrimStart(s0)
      body == IF HasSign(s) THEN Tail(s) ELSE s
      ki   == CountDigits(body)
      rest == Drop(body, ki)
      kf   == IF rest # <<>> /\ Head(rest) = "."
              THEN CountDigits(Tail(rest)) ELSE 0
      used == IF rest # <<>> /\ Head(rest) = "." THEN ki + 1 + kf ELSE ki
      mant == DigitsValue(SubSeq(body, 1, ki)) * Pow10(kf)
                + DigitsValue(SubSeq(rest, 2, kf + 1))
  IN  IF (ki = 0 /\ kf = 0) \/ used # Len(body) THEN NaN
      ELSE Rat(IF IsNeg(s) THEN -mant ELSE mant, Pow10(kf))

\* parseFloat(string): the longest prefix that is a decimal literal
\* [+-] digits [. digits] [e [+-] digits] is read and the rest ignored;
\* no such prefix gives NaN.
ParseFloat(s0) ==
  LET s      == TrimStart(s0)
      body   == IF HasSign(s) THEN Tail(s) ELSE s
      ki     == CountDigits(body)
      rest1  == Drop(body, ki)
      hasDot == rest1 # <<>> /\ Head(rest1) = "."
      kf     == IF hasDot THEN CountDigits(Tail(rest1)) ELSE 0
      rest2  == IF hasDot THEN Drop(rest1, kf + 1) ELSE rest1
      iv     == DigitsValue(SubSeq(body, 1, ki))
      fv     == IF hasDot THEN DigitsValue(SubSeq(rest1, 2, kf + 1)) ELSE 0
      mant   == iv * Pow10(kf) + fv
      hasE   == rest2 # <<>> /\ Head(rest2) \in {"e", "E"}
      erest  == IF hasE THEN Tail(rest2) ELSE <<>>
      ebody  == IF HasSign(erest) THEN Tail(erest) ELSE erest
      ke     == CountDigits(ebody)
      ev     == DigitsValue(SubSeq(ebody, 1, ke))
      sgn    == IF IsNeg(s) THEN -1 ELSE 1
  IN  IF ki = 0 /\ kf = 0 THEN NaN
      ELSE IF ke = 0 THEN Rat(sgn * mant, Pow10(kf))
      ELSE IF IsNeg(erest) THEN Rat(sgn * mant, Pow10(kf) * Pow10(ev))
      ELSE Rat(sgn * mant * Pow10(ev), Pow10(kf))

(***************************************************************************)
(* parsePDB                                                                *)
(***************************************************************************)
ATOM == <<"A", "T", "O", "M">>

HETATM == <<"H", "E", "T", "A", "T", "M">>

\* String.prototype.includes
Includes(s, p) ==
  \E k \in 0..(Len(s) - Len(p)) : SubSeq(s, k + 1, k + Len(p)) = p

\* variant: the keyword is looked for anywhere in the line
IsAtomLine_Includes(line) == Includes(line, ATOM) \/ Includes(line, HETATM)

\* variant: only the ATOM keyword is recognised
IsAtomLine_AtomOnly(line) == StartsWith(line, ATOM)

IsAtomLine(line) == StartsWith(line, ATOM) \/ StartsWith(line, HETATM)

\* variant: the 1-indexed column numbers are used as substring starts
ParseAtom_OneBasedStart(line) ==
  [serial     |-> ParseInt(Trim(Substring(line, 7, 11))),
   name       |-> Trim(Substring(line, 13, 16)),
   residue    |-> Trim(Substring(line, 18, 20)),
   chain      |-> Trim(Substring(line, 22, 22)),
   residueNum |-> ParseInt(Trim(Substring(line, 23, 26))),
   x          |-> ParseFloat(Trim(Substring(line, 31, 38))),
   y          |-> ParseFloat(Trim(Substring(line, 39, 46))),
   z          |-> ParseFloat(Trim(Substring(line, 47, 54))),
   element    |-> Trim(Substring(line, 77, 78))]

\* the object literal built for one ATOM/HETATM line
ParseAtom(line) ==
  [serial     |-> ParseInt(Trim(Substring(line, 6, 11))),
   name       |-> Trim(Substring(line, 12, 16)),
   residue    |-> Trim(Substring(line, 17, 20)),
   chain      |-> Trim(Substring(line, 21, 22)),
   residueNum |-> ParseInt(Trim(Substring(line, 22, 26))),
   x          |-> ParseFloat(Trim(Substring(line, 30, 38))),
   y          |-> ParseFloat(Trim(Substring(line, 38, 46))),
   z          |-> ParseFloat(Trim(Substring(line, 46, 54))),
   element    |-> Trim(Substring(line, 76, 78))]

\* variant: a line whose serial number was already seen is dropped
PushLine_SkipSeenSerial(atoms, line) ==
  IF IsAtomLine(line)
       /\ ~\E k \in 1..Len(atoms) : atoms[k].serial = ParseAtom(line).serial
  THEN Append(atoms, ParseAtom(line))
  ELSE atoms

\* the body of the for-of loop: push one atom for a matching line
PushLine(atoms, line) ==
  IF IsAtomLine(line) THEN Append(atoms, ParseAtom(line)) ELSE atoms

RECURSIVE ParseLines(_, _)
ParseLines(lines, atoms) ==
  IF lines = <<>> THEN atoms
  ELSE ParseLines(Tail(lines), PushLine(atoms, Head(lines)))

parsePDB(text) == ParseLines(Split(text), <<>>)

(***************************************************************************)
(* Input texts.  A line is written field by field at the columns of the    *)
(* PDB record layout (serial 7-11, name 13-16, residue 18-20, chain 22,    *)
(* residue sequence 23-26, x 31-38, y 39-46, z 47-54, element 77-78); each *)
(* descriptor carries the text of every field and, under val, the number   *)
(* each numeric text denotes.                                              *)
(***************************************************************************)
RECURSIVE Spaces(_)
Spaces(k) == IF k <= 0 THEN <<>> ELSE <<" ">> \o Spaces(k - 1)

PadLeft(s, w) == Spaces(w - Len(s)) \o s

PadRight(s, w) == s \o Spaces(w - Len(s))

Filler == <<" ", " ", "1", ".", "0", "0", " ", "2", "0", ".", "0", "0", " ", " ", " ", " ", " ", " ", " ", " ", " ", " ">>

FormatLine(d) ==
  PadRight(d.kw, 6) \o PadLeft(d.serial, 5) \o <<" ">>
    \o <<" ">> \o PadRight(d.name, 3) \o <<" ">>
    \o PadLeft(d.residue, 3) \o <<" ">> \o PadLeft(d.chain, 1)
    \o PadLeft(d.residueNum, 4) \o Spaces(4)
    \o PadLeft(d.x, 8) \o PadLeft(d.y, 8) \o PadLeft(d.z, 8)
    \o Filler \o PadLeft(d.element, 2)

\* ATOM      1  CA  ALA A   1      11.104  13.207   2.052  1.00 20.00           C
SampleAtom ==
  [kw |-> <<"A", "T", "O", "M">>, serial |-> <<"1">>, name |-> <<"C", "A">>, residue |-> <<"A", "L", "A">>, chain |-> <<"A">>,
   residueNum |-> <<"1">>, x |-> <<"1", "1", ".", "1", "0", "4">>, y |-> <<"1", "3", ".", "2", "0", "7">>, z |-> <<"2", ".", "0", "5", "2">>, element |-> <<"C">>,
   val |-> [serial |-> Num(1), residueNum |-> Num(1), x |-> Rat(11104, 1000), y |-> Rat(13207, 1000), z |-> Rat(2052, 1000)]]

WaterAtom ==
  [kw |-> <<"H", "E", "T", "A", "T", "M">>, serial |-> <<"1", "2">>, name |-> <<"O">>, residue |-> <<"H", "O", "H">>, chain |-> <<"B">>,
   residueNum |-> <<"1", "0", "1">>, x |-> <<"-", "2", ".", "5", "0", "0">>, y |-> <<"0", ".", "0", "0", "0">>, z |-> <<"7", ".", "2", "5">>, element |-> <<"O">>,
   val |-> [serial |-> Num(12), residueNum |-> Num(101), x |-> Rat(-5, 2), y |-> Num(0), z |-> Rat(29, 4)]]

NoChainAtom ==
  [kw |-> <<"A", "T", "O", "M">>, serial |-> <<"2">>, name |-> <<"N">>, residue |-> <<"G", "L", "Y">>, chain |-> <<>>,
   residueNum |-> <<"2">>, x |-> <<"0", ".", "5">>, y |-> <<"-", "1", ".", "0", "0", "0">>, z |-> <<"3">>, element |-> <<"N">>,
   val |-> [serial |-> Num(2), residueNum |-> Num(2), x |-> Rat(1, 2), y |-> Num(-1), z |-> Num(3)]]

\* same serial number as SampleAtom, other residue and position
SameSerialAtom ==
  [kw |-> <<"A", "T", "O", "M">>, serial |-> <<"1">>, name |-> <<"C", "A">>, residue |-> <<"G", "L", "Y">>, chain |-> <<"A">>,
   residueNum |-> <<"-", "2">>, x |-> <<"1", ".", "0", "0", "0">>, y |-> <<"1", "e", "2">>, z |-> <<".", "5">>, element |-> <<"C">>,
   val |-> [serial |-> Num(1), residueNum |-> Num(-2), x |-> Num(1), y |-> Num(100), z |-> Rat(1, 2)]]

WellFormed == {SampleAtom, WaterAtom, NoChainAtom, SameSerialAtom}

\* numeric columns holding text that is not a number
BadSerial == [SampleAtom EXCEPT !.serial = <<"1", "a">>]

BlankSerial == [SampleAtom EXCEPT !.serial = <<>>]

BadResidueNum == [SampleAtom EXCEPT !.residueNum = <<"1", ".", "5">>]

BadX == [SampleAtom EXCEPT !.x = <<"a", "b", "c">>]

TwoDotsX == [SampleAtom EXCEPT !.x = <<"1", ".", "2", ".", "3">>]

BadY == [WaterAtom EXCEPT !.y = <<"-">>]

GapZ == [WaterAtom EXCEPT !.z = <<"4", " ", "2">>]

Malformed ==
  {BadSerial, BlankSerial, BadResidueNum, BadX, TwoDotsX, BadY, GapZ}

\* lengths at which SampleAtom's line is cut short
CutLens == {4, 11, 30, 32, 33, 35, 37, 54}

Truncated == {SubSeq(FormatLine(SampleAtom), 1, k) : k \in CutLens}

\* lines that are not atom records
OtherLines ==
  {<<>>,
   <<"H", "E", "A", "D", "E", "R", " ", " ", " ", " ", "C", "R", "A", "M", "B", "I", "N">>,
   <<"E", "N", "D">>,
   <<"a", "t", "o", "m">>,
   <<" ">> \o FormatLine(SampleAtom)}

\* lines that start with the letters of a keyword and go on differently
RunOnLines ==
  {<<"A", "T", "O", "M", "I", "C">>,
   FormatLine(WaterAtom) \o <<"\r">>}

Lines ==
  {FormatLine(d) : d \in WellFormed \cup Malformed}
    \cup Truncated \cup OtherLines \cup RunOnLines

RECURSIVE SeqsOf(_, _)
SeqsOf(S, k) ==
  IF k = 0 THEN {<<>>}
  ELSE {Append(q, e) : q \in SeqsOf(S, k - 1), e \in S}

SeqsUpTo(S, k) == UNION {SeqsOf(S, j) : j \in 0..k}

RECURSIVE Join(_)
Join(lines) ==
  IF Len(lines) = 1 THEN lines[1]
  ELSE lines[1] \o <<NL>> \o Join(Tail(lines))

(***************************************************************************)
(* Parser specification: a text is chosen, then parsePDB is applied.       *)
(***************************************************************************)
NoObjs == <<>>

NoLast == [op |-> "none", arg |-> 0, ret |-> 0]

InitParse ==
  /\ srcLines \in SeqsUpTo(Lines, MaxLines) \ {<<>>}
  /\ pdbText = Join(srcLines)
  /\ parsed = <<>>
  /\ pc = "loaded"
  /\ objs = NoObjs
  /\ arrs = <<>>
  /\ last = NoLast
  /\ NoApp
  /\ NewTables
  /\ NoUpload

\* const allAtoms = parsePDB(pdbText)
Parse ==
  /\ pc = "loaded"
  /\ parsed' = parsePDB(pdbText)
  /\ pc' = "parsed"
  /\ UNCHANGED <<pdbText, srcLines>>
  /\ UNCHANGED geomVars
  /\ UNCHANGED appVars
  /\ UNCHANGED <<tableVars, uploadVars>>


(***************************************************************************)
(* Properties of parsePDB                                                  *)
(***************************************************************************)
\* the line begins with the letters of kw
BeginsWith(line, kw) ==
  /\ Len(line) >= Len(kw)
  /\ \A k \in 1..Len(kw) : line[k] = kw[k]

\* positions of the input lines that begin with ATOM or HETATM
Candidates ==
  {i \in 1..Len(srcLines) :
     BeginsWith(srcLines[i], ATOM) \/ BeginsWith(srcLines[i], HETATM)}

\* position in the output of the record of candidate line i
Rank(i) == Cardinality({j \in Candidates : j <= i})

IsFinite(a) == ~a.nan

\* C1: parsePDB returns exactly one record per line that begins with ATOM
\* or HETATM and none for any other line, in the order of the lines; records
\* are neither sorted nor deduplicated by serial number.
C1_OneRecordPerAtomLineInOrder ==
  pc = "parsed" =>
    /\ Len(parsed) = Cardinality(Candidates)
    /\ \A i \in Candidates : parsed[Rank(i)] = ParseAtom(srcLines[i])

C1_Witness ==
  /\ pc = "parsed"
  /\ Len(parsed) = 2
  /\ Len(srcLines) = 2
  /\ ~NumLess(parsed[1].serial, parsed[2].serial)
  /\ IsFinite(parsed[1].serial) /\ IsFinite(parsed[2].serial)

\* the record a well-formed descriptor stands for
Expected(d) ==
  [serial     |-> d.val.serial,
   name       |-> d.name,
   residue    |-> d.residue,
   chain      |-> d.chain,
   residueNum |-> d.val.residueNum,
   x          |-> d.val.x,
   y          |-> d.val.y,
   z          |-> d.val.z,
   element    |-> d.element]

\* C2: a line whose fields are laid out in the specified columns yields a
\* record whose every field is the trimmed content of its column range,
\* numeric fields as numbers; the sample line gives serial 1, name CA,
\* residue ALA, chain A, residue number 1, element C.
C2_FieldsFromColumns ==
  pc = "parsed" =>
    \A i \in Candidates : \A d \in WellFormed :
      srcLines[i] = FormatLine(d) => parsed[Rank(i)] = Expected(d)

C2_Witness ==
  /\ pc = "parsed"
  /\ \E i \in Candidates :
       /\ srcLines[i] = FormatLine(SampleAtom)
       /\ parsed[Rank(i)].name = <<"C", "A">>
       /\ parsed[Rank(i)].x = Rat(11104, 1000)

\* the part of columns 31-38 that a line holds
XColumns(line) == {k \in 31..38 : k <= Len(line)}

\* x of the sample line cut after column k, for the cuts inside columns 31-37
CutX(k) ==
  CASE k = 33 -> Num(1)
    [] k = 35 -> Num(11)
    [] k = 37 -> Rat(111, 10)
    [] OTHER  -> NaN

Unsigned(t) == IF t # <<>> /\ t[1] \in {"+", "-"} THEN SubSeq(t, 2, Len(t)) ELSE t

\* the whole text is digits with at most one point, at least one digit
IsMantissaText(t) ==
  /\ \E k \in 1..Len(t) : IsDigit(t[k])
  /\ \A k \in 1..Len(t) : IsDigit(t[k]) \/ t[k] = "."
  /\ Cardinality({k \in 1..Len(t) : t[k] = "."}) <= 1

IsDigitsText(t) == t # <<>> /\ \A k \in 1..Len(t) : IsDigit(t[k])

\* the whole text is a decimal number: sign, mantissa, optional exponent
IsNumberText(t) ==
  LET b == Unsigned(t)
  IN  \/ IsMantissaText(b)
      \/ \E e \in 2..Len(b) :
           /\ b[e] \in {"e", "E"}
           /\ IsMantissaText(SubSeq(b, 1, e - 1))
           /\ IsDigitsText(Unsigned(SubSeq(b, e + 1, Len(b))))

\* the text begins with an integer: sign, then a digit
HasIntPrefix(t) ==
  LET b == Unsigned(t) IN b # <<>> /\ IsDigit(b[1])

\* the text begins with a decimal number: sign, then a digit or .digit
HasNumberPrefix(t) ==
  LET b == Unsigned(t)
  IN  /\ b # <<>>
      /\ \/ IsDigit(b[1])
         \/ b[1] = "." /\ Len(b) >= 2 /\ IsDigit(b[2])

\* the lines written from a descriptor, well-formed or not
Described == WellFormed \cup Malformed

C5_LineLocal ==
  pc = "parsed" =>
    /\ \A k \in 1..(Len(srcLines) - 1) :
         parsed = parsePDB(Join(SubSeq(srcLines, 1, k)))
                    \o parsePDB(Join(SubSeq(srcLines, k + 1, Len(srcLines))))
    /\ \A i \in Candidates : <<parsed[Rank(i)]>> = parsePDB(srcLines[i])

C5_Witness ==
  /\ pc = "parsed"
  /\ Len(srcLines) = 2
  /\ srcLines[1] = FormatLine(BadX)
  /\ srcLines[2] = FormatLine(SameSerialAtom)
  /\ Len(parsed) = 2
  /\ parsed[2].x = Num(1)

(***************************************************************************)
(* Geometry: centerProtein, getBoundingBox, getMaxDimension                *)
(***************************************************************************)
\* atoms.reduce((sum, a) => sum + a.<axis>, 0) over the axis values
RECURSIVE ReduceSum(_, _, _)
ReduceSum(vals, i, sum) ==
  IF i > Len(vals) THEN sum
  ELSE ReduceSum(vals, i + 1, NumAdd(sum, vals[i]))

Xs(atoms) == [i \in 1..Len(atoms) |-> atoms[i].x]

Ys(atoms) == [i \in 1..Len(atoms) |-> atoms[i].y]

Zs(atoms) == [i \in 1..Len(atoms) |-> atoms[i].z]

\* variant: the y average is computed from the x coordinates
Centroid_YFromX(atoms) ==
  [x |-> NumDiv(ReduceSum(Xs(atoms), 1, Num(0)), Len(atoms)),
   y |-> NumDiv(ReduceSum(Xs(atoms), 1, Num(0)), Len(atoms)),
   z |-> NumDiv(ReduceSum(Zs(atoms), 1, Num(0)), Len(atoms))]

\* avgX, avgY, avgZ
Centroid(atoms) ==
  [x |-> NumDiv(ReduceSum(Xs(atoms), 1, Num(0)), Len(atoms)),
   y |-> NumDiv(ReduceSum(Ys(atoms), 1, Num(0)), Len(atoms)),
   z |-> NumDiv(ReduceSum(Zs(atoms), 1, Num(0)), Len(atoms))]

\* variant: the centroid is added instead of subtracted
CenteredAtom_Added(atom, avg) ==
  [atom EXCEPT !.x = NumAdd(@, avg.x),
               !.y = NumAdd(@, avg.y),
               !.z = NumAdd(@, avg.z)]

\* { ...atom, x: atom.x - avgX, y: atom.y - avgY, z: atom.z - avgZ }
CenteredAtom(atom, avg) ==
  [atom EXCEPT !.x = NumSub(@, avg.x),
               !.y = NumSub(@, avg.y),
               !.z = NumSub(@, avg.z)]

\* the values centerProtein returns for the values it is given
centerProtein(atoms) ==
  IF Len(atoms) = 0 THEN atoms
  ELSE [i \in 1..Len(atoms) |-> CenteredAtom(atoms[i], Centroid(atoms))]

Point(atom) == [x |-> atom.x, y |-> atom.y, z |-> atom.z]

ZeroPoint == [x |-> Num(0), y |-> Num(0), z |-> Num(0)]

\* the forEach of getBoundingBox from atom i on
RECURSIVE BoxLoop(_, _, _, _)
BoxLoop(atoms, i, min, max) ==
  IF i > Len(atoms) THEN [min |-> min, max |-> max]
  ELSE BoxLoop(atoms, i + 1,
               [x |-> MathMin(min.x, atoms[i].x),
                y |-> MathMin(min.y, atoms[i].y),
                z |-> MathMin(min.z, atoms[i].z)],
               [x |-> MathMax(max.x, atoms[i].x),
                y |-> MathMax(max.y, atoms[i].y),
                z |-> MathMax(max.z, atoms[i].z)])

\* variant: min and max start from zero instead of the first atom
BoxStart_Zero(atoms) == ZeroPoint

\* min and max are initialised with the first atom's coordinates
BoxStart(atoms) == Point(atoms[1])

getBoundingBox(atoms) ==
  IF Len(atoms) = 0
  THEN [min |-> ZeroPoint, max |-> ZeroPoint, size |-> ZeroPoint]
  ELSE LET b == BoxLoop(atoms, 1, BoxStart(atoms), BoxStart(atoms))
       IN  [min  |-> b.min,
            max  |-> b.max,
            size |-> [x |-> NumSub(b.max.x, b.min.x),
                      y |-> NumSub(b.max.y, b.min.y),
                      z |-> NumSub(b.max.z, b.min.z)]]

\* variant: the result is clamped to at least 1
getMaxDimension_AtLeastOne(atoms) ==
  LET bbox == getBoundingBox(atoms)
  IN  MathMax(MathMax(MathMax(bbox.size.x, bbox.size.y), bbox.size.z),
              Num(1))

\* Math.max(bbox.size.x, bbox.size.y, bbox.size.z)
getMaxDimension(atoms) ==
  LET bbox == getBoundingBox(atoms)
  IN  MathMax(MathMax(bbox.size.x, bbox.size.y), bbox.size.z)

(***************************************************************************)
(* Geometry specification: a record list is chosen, then the geometry      *)
(* functions are called on it and on the lists they return.                *)
(***************************************************************************)
AtomOrigin ==
  [serial |-> Num(1), name |-> <<"C", "A">>, residue |-> <<"A", "L", "A">>, chain |-> <<"A">>,
   residueNum |-> Num(1), x |-> Num(0), y |-> Num(0), z |-> Num(0), element |-> <<"C">>]

AtomTwo ==
  [serial |-> Num(2), name |-> <<"C", "A">>, residue |-> <<"G", "L", "Y">>, chain |-> <<"A">>,
   residueNum |-> Num(2), x |-> Num(2), y |-> Num(0), z |-> Num(0), element |-> <<"C">>]

AtomFar ==
  [serial |-> Num(3), name |-> <<"N">>, residue |-> <<"G", "L", "Y">>, chain |-> <<"B">>,
   residueNum |-> Num(2), x |-> Num(1), y |-> Num(-3), z |-> Num(5), element |-> <<"N">>]

AtomHalf ==
  [serial |-> Num(4), name |-> <<"C", "A">>, residue |-> <<"S", "E", "R">>, chain |-> <<>>,
   residueNum |-> Num(3), x |-> Rat(1, 2), y |-> Num(4), z |-> Num(-2), element |-> <<"C">>]

AtomNoX ==
  [serial |-> Num(5), name |-> <<"C", "A">>, residue |-> <<"A", "L", "A">>, chain |-> <<"A">>,
   residueNum |-> Num(4), x |-> NaN, y |-> Num(1), z |-> Num(2), element |-> <<>>]

AtomNoZ ==
  [serial |-> NaN, name |-> <<"O">>, residue |-> <<"H", "O", "H">>, chain |-> <<"B">>,
   residueNum |-> Num(7), x |-> Num(3), y |-> Num(2), z |-> NaN, element |-> <<"O">>]

AtomChoices == {AtomOrigin, AtomTwo, AtomFar, AtomHalf, AtomNoX, AtomNoZ}

\* the records an array refers to
Deref(a) == [i \in 1..Len(arrs[a]) |-> objs[arrs[a][i]]]

InitGeom ==
  /\ objs \in SeqsUpTo(AtomChoices, MaxAtoms)
  /\ arrs = <<[i \in 1..Len(objs) |-> i]>>
  /\ last = NoLast
  /\ pc = "geometry"
  /\ pdbText = <<>>
  /\ srcLines = <<>>
  /\ parsed = <<>>
  /\ NoApp
  /\ NewTables
  /\ NoUpload

\* variant: the coordinates are shifted in the records passed in and the
\* array passed in is returned
CenterProtein_InPlace(a) ==
  /\ pc = "geometry"
  /\ Len(arrs) <= MaxCentered
  /\ LET atoms == Deref(a)
         moved == centerProtein(atoms)
     IN  /\ objs' = [o \in 1..Len(objs) |->
                       IF \E i \in 1..Len(atoms) : arrs[a][i] = o
                       THEN moved[CHOOSE i \in 1..Len(atoms) : arrs[a][i] = o]
                       ELSE objs[o]]
         /\ arrs' = arrs
         /\ last' = [op |-> "centerProtein", arg |-> a, ret |-> a]
  /\ UNCHANGED parseVars
  /\ UNCHANGED appVars
  /\ UNCHANGED <<tableVars, uploadVars>>

\* variant: no early return for the empty array
CenterProtein_NoEmptyCheck(a) ==
  /\ pc = "geometry"
  /\ Len(arrs) <= MaxCentered
  /\ LET atoms == Deref(a)
         avg   == Centroid(atoms)
     IN  /\ objs' = objs \o [i \in 1..Len(atoms) |-> CenteredAtom(atoms[i], avg)]
         /\ arrs' = Append(arrs, [i \in 1..Len(atoms) |-> Len(objs) + i])
         /\ last' = [op |-> "centerProtein", arg |-> a, ret |-> Len(arrs) + 1]
  /\ UNCHANGED parseVars
  /\ UNCHANGED appVars
  /\ UNCHANGED <<tableVars, uploadVars>>

\* centerProtein(atoms): the empty array is returned as it is; otherwise
\* map() allocates a new array of new objects
CenterProtein(a) ==
  /\ pc = "geometry"
  /\ Len(arrs) <= MaxCentered
  /\ LET atoms == Deref(a)
     IN  IF Len(atoms) = 0
         THEN /\ objs' = objs
              /\ arrs' = arrs
              /\ last' = [op |-> "centerProtein", arg |-> a, ret |-> a]
         ELSE /\ objs' = objs \o centerProtein(atoms)
              /\ arrs' = Append(arrs, [i \in 1..Len(atoms) |-> Len(objs) + i])
              /\ last' = [op |-> "centerProtein", arg |-> a,
                          ret |-> Len(arrs) + 1]
  /\ UNCHANGED parseVars
  /\ UNCHANGED appVars
  /\ UNCHANGED <<tableVars, uploadVars>>

GetBoundingBox(a) ==
  /\ pc \in {"geometry", "selection"}
  /\ last' = [op |-> "getBoundingBox", arg |-> a,
              ret |-> getBoundingBox(Deref(a))]
  /\ UNCHANGED <<objs, arrs>>
  /\ UNCHANGED parseVars
  /\ UNCHANGED appVars
  /\ UNCHANGED <<tableVars, uploadVars>>

GetMaxDimension(a) ==
  /\ pc \in {"geometry", "selection"}
  /\ last' = [op |-> "getMaxDimension", arg |-> a,
              ret |-> getMaxDimension(Deref(a))]
  /\ UNCHANGED <<objs, arrs>>
  /\ UNCHANGED parseVars
  /\ UNCHANGED appVars
  /\ UNCHANGED <<tableVars, uploadVars>>

NextGeom ==
  \E a \in 1..Len(arrs) :
    \/ CenterProtein(a)
    \/ GetBoundingBox(a)
    \/ GetMaxDimension(a)

SpecGeom == InitGeom /\ [][NextGeom]_vars

(***************************************************************************)
(* Properties of the geometry functions                                    *)
(***************************************************************************)
\* the list the last call was given and, for centerProtein, the one it gave
In == Deref(last.arg)

Out == Deref(last.ret)

RECURSIVE Total(_)
Total(vals) ==
  IF vals = <<>> THEN Num(0) ELSE NumAdd(Head(vals), Total(Tail(vals)))

\* arithmetic mean of a non-empty sequence of numbers
MeanOf(vals) == NumDiv(Total(vals), Len(vals))

AllFinite(vals) == \A i \in 1..Len(vals) : IsFinite(vals[i])

FullyNumeric(atoms) ==
  AllFinite(Xs(atoms)) /\ AllFinite(Ys(atoms)) /\ AllFinite(Zs(atoms))

SameIdentity(r, q) ==
  /\ r.serial = q.serial
  /\ r.name = q.name
  /\ r.residue = q.residue
  /\ r.chain = q.chain
  /\ r.residueNum = q.residueNum
  /\ r.element = q.element

Centered == last.op = "centerProtein" /\ Len(In) > 0

\* C6 as stated: for every non-empty list centerProtein returns a list of
\* the same length and order whose mean is zero on each axis.
C6_MeanZero ==
  Centered =>
    /\ Len(Out) = Len(In)
    /\ \A i \in 1..Len(In) : SameIdentity(Out[i], In[i])
    /\ MeanOf(Xs(Out)) = Num(0)
    /\ MeanOf(Ys(Out)) = Num(0)
    /\ MeanOf(Zs(Out)) = Num(0)

\* C6 amended: for every non-empty list centerProtein returns a list of
\* the same length and order in which every position is the input position
\* minus the per-axis mean of the input positions; on each axis on which no
\* input coordinate is missing the mean of the output is zero, and on an
\* axis with a missing coordinate every output coordinate is missing.
C6_ShiftedByMean ==
  Centered =>
    /\ Len(Out) = Len(In)
    /\ \A i \in 1..Len(In) :
         /\ SameIdentity(Out[i], In[i])
         /\ Out[i].x = NumSub(In[i].x, MeanOf(Xs(In)))
         /\ Out[i].y = NumSub(In[i].y, MeanOf(Ys(In)))
         /\ Out[i].z = NumSub(In[i].z, MeanOf(Zs(In)))
    /\ IF AllFinite(Xs(In)) THEN MeanOf(Xs(Out)) = Num(0)
       ELSE \A i \in 1..Len(Out) : IsNaN(Out[i].x)
    /\ IF AllFinite(Ys(In)) THEN MeanOf(Ys(Out)) = Num(0)
       ELSE \A i \in 1..Len(Out) : IsNaN(Out[i].y)
    /\ IF AllFinite(Zs(In)) THEN MeanOf(Zs(Out)) = Num(0)
       ELSE \A i \in 1..Len(Out) : IsNaN(Out[i].z)

C6_Witness ==
  /\ Centered
  /\ Len(In) = 3
  /\ FullyNumeric(In)
  /\ In[1].y # In[2].y
  /\ Out[1].y # In[1].y
  /\ MeanOf(Ys(Out)) = Num(0)

\* C7: a centerProtein call on a non-empty list changes no existing record
\* and no existing list; every record of the result is a newly allocated
\* object, and its serial, name, residue, chain, residue number and element
\* are those of the input record at the same position.
C7_Step ==
  (last'.op = "centerProtein" /\ Len(arrs[last'.arg]) > 0) =>
    /\ \A o \in 1..Len(objs) : objs'[o] = objs[o]
    /\ \A k \in 1..Len(arrs) : arrs'[k] = arrs[k]
    /\ last'.ret \notin 1..Len(arrs)
    /\ Len(arrs'[last'.ret]) = Len(arrs[last'.arg])
    /\ \A i \in 1..Len(arrs[last'.arg]) :
         /\ arrs'[last'.ret][i] \notin 1..Len(objs)
         /\ SameIdentity(objs'[arrs'[last'.ret][i]], objs[arrs[last'.arg][i]])

C7_InputUntouched == [][C7_Step]_vars

C7_Witness ==
  /\ Centered
  /\ Len(In) >= 2
  /\ last.ret # last.arg
  /\ Out[1].x # In[1].x
  /\ Out[2].name = In[2].name

BoxOf == last.op = "getBoundingBox" /\ Len(In) > 0 /\ FullyNumeric(In)

\* lo is below every value and is one of them
IsLeast(lo, vals) ==
  /\ \A i \in 1..Len(vals) : NumLeq(lo, vals[i])
  /\ \E i \in 1..Len(vals) : lo = vals[i]

IsGreatest(hi, vals) ==
  /\ \A i \in 1..Len(vals) : NumLeq(vals[i], hi)
  /\ \E i \in 1..Len(vals) : hi = vals[i]

\* C8: for a non-empty list without missing coordinates getBoundingBox
\* returns per axis the least coordinate as min, the greatest as max and
\* max - min as size; positions (0,0,0) and (2,0,0) give min (0,0,0),
\* max (2,0,0), size (2,0,0).
C8_BoxIsTight ==
  BoxOf =>
    /\ IsLeast(last.ret.min.x, Xs(In)) /\ IsGreatest(last.ret.max.x, Xs(In))
    /\ IsLeast(last.ret.min.y, Ys(In)) /\ IsGreatest(last.ret.max.y, Ys(In))
    /\ IsLeast(last.ret.min.z, Zs(In)) /\ IsGreatest(last.ret.max.z, Zs(In))
    /\ last.ret.size.x = NumSub(last.ret.max.x, last.ret.min.x)
    /\ last.ret.size.y = NumSub(last.ret.max.y, last.ret.min.y)
    /\ last.ret.size.z = NumSub(last.ret.max.z, last.ret.min.z)
    /\ In = <<AtomOrigin, AtomTwo>> =>
         /\ last.ret.min = ZeroPoint
         /\ last.ret.max = [x |-> Num(2), y |-> Num(0), z |-> Num(0)]
         /\ last.ret.size = [x |-> Num(2), y |-> Num(0), z |-> Num(0)]

C8_Witness ==
  /\ BoxOf
  /\ Len(In) = 3
  /\ last.ret.min.y = In[2].y
  /\ last.ret.max.y = In[3].y
  /\ NumLess(In[2].y, In[1].y)
  /\ NumLess(In[1].y, In[3].y)

\* C9: for a non-empty list without missing coordinates the min and the
\* max of the bounding box of the centered list are the min and the max of
\* the bounding box of the list minus its centroid, on every axis, and the
\* size of the box is the same.
C9_BoxShiftsWithCentroid ==
  (Centered /\ FullyNumeric(In)) =>
    LET before == getBoundingBox(In)
        after  == getBoundingBox(Out)
        cx     == MeanOf(Xs(In))
        cy     == MeanOf(Ys(In))
        cz     == MeanOf(Zs(In))
    IN  /\ after.min.x = NumSub(before.min.x, cx)
        /\ after.min.y = NumSub(before.min.y, cy)
        /\ after.min.z = NumSub(before.min.z, cz)
        /\ after.max.x = NumSub(before.max.x, cx)
        /\ after.max.y = NumSub(before.max.y, cy)
        /\ after.max.z = NumSub(before.max.z, cz)
        /\ after.size = before.size

C9_Witness ==
  /\ Centered
  /\ FullyNumeric(In)
  /\ Len(In) >= 2
  /\ getBoundingBox(In).size.x # Num(0)
  /\ getBoundingBox(Out).min.x # getBoundingBox(In).min.x

Extent == last.op = "getMaxDimension"

\* v is the largest of the three size components
IsLargestSize(v, size) ==
  /\ v \in {size.x, size.y, size.z}
  /\ NumLeq(size.x, v) /\ NumLeq(size.y, v) /\ NumLeq(size.z, v)

\* C10 as stated: for every list getMaxDimension is the largest size
\* component of getBoundingBox of the list, hence 0 for an empty list and
\* for a single record.
C10_LargestSize ==
  Extent =>
    /\ IsLargestSize(last.ret, getBoundingBox(In).size)
    /\ Len(In) <= 1 => last.ret = Num(0)

\* C10 amended: for every list without missing coordinates getMaxDimension
\* is the largest size component of getBoundingBox of the list, with no
\* minimum applied, hence 0 for an empty list and for a single record; when
\* a record has a missing coordinate, also in a list of one record, the
\* result is the missing marker.
C10_LargestSizeOrMissing ==
  Extent =>
    IF FullyNumeric(In)
    THEN /\ IsLargestSize(last.ret, getBoundingBox(In).size)
         /\ Len(In) <= 1 => last.ret = Num(0)
    ELSE IsNaN(last.ret)

C10_Witness ==
  /\ Extent
  /\ Len(In) = 1
  /\ FullyNumeric(In)
  /\ In[1].x # Num(0)
  /\ last.ret = Num(0)

(***************************************************************************)
(* Missing coordinates and empty lists                                     *)
(***************************************************************************)
SomeMissing(vals) == \E i \in 1..Len(vals) : IsNaN(vals[i])

\* on an axis with a missing coordinate the centroid and every centered
\* coordinate are missing; on any other axis they are the mean and the
\* shifted coordinate of that axis alone
CenterAxisOK(in, out, avg) ==
  IF SomeMissing(in)
  THEN IsNaN(avg) /\ \A i \in 1..Len(out) : IsNaN(out[i])
  ELSE /\ avg = MeanOf(in)
       /\ \A i \in 1..Len(out) : out[i] = NumSub(in[i], MeanOf(in))

\* on an axis with a missing coordinate min, max and size are missing; on
\* any other axis they are the extrema of that axis alone
BoxAxisOK(in, lo, hi, size) ==
  IF SomeMissing(in)
  THEN IsNaN(lo) /\ IsNaN(hi) /\ IsNaN(size)
  ELSE IsLeast(lo, in) /\ IsGreatest(hi, in) /\ size = NumSub(hi, lo)

\* C11: a missing coordinate on an axis, wherever its record sits in the
\* list, makes the centroid and every centered coordinate missing on that
\* axis and makes min, max and size of the bounding box missing on that
\* axis; the other axes are as they would be without that axis.
C11_MissingPropagatesPerAxis ==
  /\ Centered =>
       /\ Len(Out) = Len(In)
       /\ CenterAxisOK(Xs(In), Xs(Out), Centroid(In).x)
       /\ CenterAxisOK(Ys(In), Ys(Out), Centroid(In).y)
       /\ CenterAxisOK(Zs(In), Zs(Out), Centroid(In).z)
  /\ (last.op = "getBoundingBox" /\ Len(In) > 0) =>
       /\ BoxAxisOK(Xs(In), last.ret.min.x, last.ret.max.x, last.ret.size.x)
       /\ BoxAxisOK(Ys(In), last.ret.min.y, last.ret.max.y, last.ret.size.y)
       /\ BoxAxisOK(Zs(In), last.ret.min.z, last.ret.max.z, last.ret.size.z)

C11_Witness ==
  /\ last.op = "getBoundingBox"
  /\ Len(In) = 3
  /\ IsFinite(In[1].x) /\ IsNaN(In[2].x) /\ IsFinite(In[3].x)
  /\ AllFinite(Ys(In))
  /\ IsNaN(last.ret.min.x)
  /\ IsFinite(last.ret.size.y)
  /\ last.ret.size.y # Num(0)

ZeroBox == [min |-> ZeroPoint, max |-> ZeroPoint, size |-> ZeroPoint]

\* C12: on an empty list getBoundingBox returns min = max = size = 0 on
\* every axis, getMaxDimension returns 0, and centerProtein returns the
\* very list it was given.
C12_EmptyList ==
  Len(arrs) >= 1 /\ last.op # "none" /\ Len(In) = 0 =>
    /\ last.op = "getBoundingBox" => last.ret = ZeroBox
    /\ last.op = "getMaxDimension" => last.ret = Num(0)
    /\ last.op = "centerProtein" => last.ret = last.arg /\ Len(arrs) = 1

C12_Witness ==
  /\ last.op = "centerProtein"
  /\ Len(In) = 0
  /\ last.ret = last.arg
  /\ objs = <<>>

(***************************************************************************)
(* Selection and summary: getBackboneAtoms, getChains, getAtomsByChain,    *)
(* getProteinInfo                                                          *)
(***************************************************************************)
CA == <<"C", "A">>

\* variant: carbon atoms are kept, whatever their name
IsBackbone_ByElement(atom) == atom.element = <<"C">>

\* atom.name === 'CA'
IsBackbone(atom) == atom.name = CA

\* atoms.filter(atom => atom.name === 'CA')
getBackboneAtoms(atoms) == SelectSeq(atoms, IsBackbone)

\* the characters of the model in the order of their UTF-16 code units
CodeOrder ==
  <<"\t", "\n", "\r", " ", "+", "-", ".",
    "0", "1", "2", "3", "4", "5", "6", "7", "8", "9",
    "A", "B", "C", "D", "E", "F", "G", "H", "I", "J", "K", "L", "M",
    "N", "O", "P", "Q", "R", "S", "T", "U", "V", "W", "X", "Y", "Z",
    "a", "b", "c", "d", "e", "f", "g", "h", "i", "j", "k", "l", "m",
    "n", "o", "p", "q", "r", "s", "t", "u", "v", "w", "x", "y", "z">>

CharCode(c) == CHOOSE k \in 1..Len(CodeOrder) : CodeOrder[k] = c

\* s < t as the default comparison of Array.prototype.sort orders strings
RECURSIVE StrLess(_, _)
StrLess(s, t) ==
  IF t = <<>> THEN FALSE
  ELSE IF s = <<>> THEN TRUE
  ELSE IF Head(s) # Head(t) THEN CharCode(Head(s)) < CharCode(Head(t))
  ELSE StrLess(Tail(s), Tail(t))

\* variant: every value is kept, repeated or not
SetOf_KeepAll(vals) == vals

\* new Set(values): the distinct values in order of first occurrence
RECURSIVE SetOf(_)
SetOf(vals) ==
  IF vals = <<>> THEN <<>>
  ELSE LET init == SetOf(SubSeq(vals, 1, Len(vals) - 1))
           v    == vals[Len(vals)]
       IN  IF \E k \in 1..Len(init) : init[k] = v THEN init
           ELSE Append(init, v)

RECURSIVE InsertSorted(_, _)
InsertSorted(sorted, v) ==
  IF sorted = <<>> THEN <<v>>
  ELSE IF StrLess(v, Head(sorted)) THEN <<v>> \o sorted
  ELSE <<Head(sorted)>> \o InsertSorted(Tail(sorted), v)

\* variant: the array is left in the order it has
Sort_Skipped(vals) == vals

\* Array.prototype.sort() with the default comparison
RECURSIVE Sort(_)
Sort(vals) ==
  IF vals = <<>> THEN <<>>
  ELSE InsertSorted(Sort(SubSeq(vals, 1, Len(vals) - 1)), vals[Len(vals)])

Chains(atoms) == [i \in 1..Len(atoms) |-> atoms[i].chain]

\* Array.from(new Set(atoms.map(atom => atom.chain))).sort()
getChains(atoms) == Sort(SetOf(Chains(atoms)))

ToUpper(c) ==
  IF CharCode(c) >= CharCode("a") /\ CharCode(c) <= CharCode("z")
  THEN CodeOrder[CharCode(c) - CharCode("a") + CharCode("A")]
  ELSE c

\* variant: the chain identifiers are compared without regard to case
ChainMatches_IgnoreCase(atom, chainId) ==
  [k \in 1..Len(atom.chain) |-> ToUpper(atom.chain[k])]
    = [k \in 1..Len(chainId) |-> ToUpper(chainId[k])]

\* atom.chain === chainId
ChainMatches(atom, chainId) == atom.chain = chainId

\* atoms.filter(atom => atom.chain === chainId)
getAtomsByChain(atoms, chainId) ==
  LET keep(atom) == ChainMatches(atom, chainId)
  IN  SelectSeq(atoms, keep)

\* variant: the chains are taken from the backbone atoms only
getProteinInfo_BackboneChains(atoms) ==
  LET backbone      == getBackboneAtoms(atoms)
      chains        == getChains(backbone)
  IN  [totalAtoms   |-> Len(atoms),
       residueCount |-> Len(backbone),
       chainCount   |-> Len(chains),
       chains       |-> chains]

getProteinInfo(atoms) ==
  LET chains        == getChains(atoms)
      backbone      == getBackboneAtoms(atoms)
  IN  [totalAtoms   |-> Len(atoms),
       residueCount |-> Len(backbone),
       chainCount   |-> Len(chains),
       chains       |-> chains]

\* const info = getProteinInfo(allAtoms)
Summarize ==
  /\ pc = "parsed"
  /\ pc' = "summarized"
  /\ last' = [op |-> "getProteinInfo", arg |-> 0,
              ret |-> getProteinInfo(parsed)]
  /\ UNCHANGED <<pdbText, srcLines, parsed, objs, arrs>>
  /\ UNCHANGED appVars
  /\ UNCHANGED <<tableVars, uploadVars>>

NextParse == Parse \/ Summarize

SpecParse == InitParse /\ [][NextParse]_vars

\* C13: a text without any ATOM or HETATM line, the empty text included,
\* decodes to no record, and its summary has 0 atoms, 0 backbone residues
\* and no chain.
C13_NoAtomLines ==
  (pc \in {"parsed", "summarized"} /\ Candidates = {}) =>
    /\ parsed = <<>>
    /\ pc = "summarized" =>
         /\ last.ret.totalAtoms = 0
         /\ last.ret.residueCount = 0
         /\ last.ret.chains = <<>>

C13_Witness ==
  /\ pc = "summarized"
  /\ Len(srcLines) = 2
  /\ srcLines[1] = <<>>
  /\ srcLines[2] = <<" ">> \o FormatLine(SampleAtom)
  /\ parsed = <<>>
  /\ last.ret.totalAtoms = 0

(***************************************************************************)
(* Selection specification: a record list is chosen, then the selection,   *)
(* summary and measuring functions are called on it.                       *)
(***************************************************************************)
AtomBeta ==
  [serial |-> Num(6), name |-> <<"C", "B">>, residue |-> <<"A", "L", "A">>, chain |-> <<"a">>,
   residueNum |-> Num(1), x |-> Num(-1), y |-> Num(2), z |-> Num(3), element |-> <<"C">>]

SelectChoices == {AtomOrigin, AtomFar, AtomHalf, AtomBeta}

\* chain identifiers asked for
ChainIds == {<<"A">>, <<"a">>}

InitSelect ==
  /\ objs \in SeqsUpTo(SelectChoices, MaxAtoms)
  /\ arrs = <<[i \in 1..Len(objs) |-> i]>>
  /\ last = NoLast
  /\ pc = "selection"
  /\ pdbText = <<>>
  /\ srcLines = <<>>
  /\ parsed = <<>>
  /\ NoApp
  /\ NewTables
  /\ NoUpload

\* the references of array a whose records pass the test
RefsWhere(a, Test(_)) ==
  LET keep(r) == Test(objs[r]) IN SelectSeq(arrs[a], keep)

\* variant: the records that are not backbone atoms are removed from the
\* array passed in, which is returned
GetBackboneAtoms_InPlace(a) ==
  /\ pc = "selection"
  /\ Len(arrs) <= MaxCentered
  /\ arrs' = [arrs EXCEPT ![a] = RefsWhere(a, IsBackbone)]
  /\ last' = [op |-> "getBackboneAtoms", arg |-> a, ret |-> a]
  /\ UNCHANGED objs
  /\ UNCHANGED parseVars
  /\ UNCHANGED appVars
  /\ UNCHANGED <<tableVars, uploadVars>>

\* filter() allocates a new array holding the same objects
GetBackboneAtoms(a) ==
  /\ pc = "selection"
  /\ Len(arrs) <= MaxCentered
  /\ arrs' = Append(arrs, RefsWhere(a, IsBackbone))
  /\ last' = [op |-> "getBackboneAtoms", arg |-> a, ret |-> Len(arrs) + 1]
  /\ UNCHANGED objs
  /\ UNCHANGED parseVars
  /\ UNCHANGED appVars
  /\ UNCHANGED <<tableVars, uploadVars>>

GetAtomsByChain(a, chainId) ==
  /\ pc = "selection"
  /\ Len(arrs) <= MaxCentered
  /\ LET keep(atom) == ChainMatches(atom, chainId)
     IN  arrs' = Append(arrs, RefsWhere(a, keep))
  /\ last' = [op |-> "getAtomsByChain", arg |-> a, id |-> chainId,
              ret |-> Len(arrs) + 1]
  /\ UNCHANGED objs
  /\ UNCHANGED parseVars
  /\ UNCHANGED appVars
  /\ UNCHANGED <<tableVars, uploadVars>>

GetChains(a) ==
  /\ pc = "selection"
  /\ last' = [op |-> "getChains", arg |-> a, ret |-> getChains(Deref(a))]
  /\ UNCHANGED <<objs, arrs>>
  /\ UNCHANGED parseVars
  /\ UNCHANGED appVars
  /\ UNCHANGED <<tableVars, uploadVars>>

GetProteinInfo(a) ==
  /\ pc = "selection"
  /\ last' = [op |-> "getProteinInfo", arg |-> a,
              ret |-> getProteinInfo(Deref(a))]
  /\ UNCHANGED <<objs, arrs>>
  /\ UNCHANGED parseVars
  /\ UNCHANGED appVars
  /\ UNCHANGED <<tableVars, uploadVars>>

\* the list chosen at the start
InputList == 1

NextSelect ==
  \/ GetBackboneAtoms(InputList)
  \/ \E chainId \in ChainIds : GetAtomsByChain(InputList, chainId)
  \/ GetChains(InputList)
  \/ GetProteinInfo(InputList)
  \/ GetBoundingBox(InputList)
  \/ GetMaxDimension(InputList)

SpecSelect == InitSelect /\ [][NextSelect]_vars

(***************************************************************************)
(* Properties of the selection and summary functions                       *)
(***************************************************************************)
\* refs holds, in order, exactly the references of array a whose records
\* pass the test
IsFilterOf(refs, a, Test(_)) ==
  LET kept    == {i \in 1..Len(arrs[a]) : Test(objs[arrs[a][i]])}
      place(i) == Cardinality({j \in kept : j <= i})
  IN  /\ Len(refs) = Cardinality(kept)
      /\ \A i \in kept : refs[place(i)] = arrs[a][i]

NamedCA(atom) == atom.name = <<"C", "A">>

\* C14: getBackboneAtoms returns, in input order, exactly the input records
\* whose name is "CA": the same objects, and no record with another name.
C14_BackboneIsFilter ==
  last.op = "getBackboneAtoms" =>
    /\ IsFilterOf(arrs[last.ret], last.arg, NamedCA)
    /\ \A i \in 1..Len(Out) : Out[i].name = <<"C", "A">>

C14_Witness ==
  /\ last.op = "getBackboneAtoms"
  /\ Len(In) = 3
  /\ In[2].name # <<"C", "A">>
  /\ arrs[last.ret] = <<arrs[last.arg][1], arrs[last.arg][3]>>

\* UTF-16 code of the chain identifiers of the model, -1 for no character
ChainCode(c) ==
  CASE c = <<>>    -> -1
    [] c = <<"A">> -> 65
    [] c = <<"B">> -> 66
    [] c = <<"a">> -> 97

\* C15: getChains returns every chain value of the input exactly once, the
\* empty string included, nothing else, in ascending order; the empty list
\* gives the empty sequence.
C15_ChainsDistinctSorted ==
  last.op = "getChains" =>
    /\ \A i \in 1..Len(In) :
         Cardinality({k \in 1..Len(last.ret) : last.ret[k] = In[i].chain}) = 1
    /\ \A k \in 1..Len(last.ret) :
         \E i \in 1..Len(In) : In[i].chain = last.ret[k]
    /\ \A k \in 1..(Len(last.ret) - 1) :
         ChainCode(last.ret[k]) < ChainCode(last.ret[k + 1])
    /\ Len(In) = 0 => last.ret = <<>>

C15_Witness ==
  /\ last.op = "getChains"
  /\ Len(In) = 3
  /\ In[1].chain = <<"a">> /\ In[2].chain = <<>> /\ In[3].chain = <<"a">>
  /\ last.ret = << <<>>, <<"a">> >>

\* C16: getAtomsByChain returns, in input order, exactly the records whose
\* chain is the identifier asked for, letter case included, and the empty
\* sequence when there is none.
C16_ByChainIsFilter ==
  last.op = "getAtomsByChain" =>
    LET hasId(atom) == atom.chain = last.id
    IN  /\ IsFilterOf(arrs[last.ret], last.arg, hasId)
        /\ (\A i \in 1..Len(In) : In[i].chain # last.id) => Out = <<>>

C16_Witness ==
  /\ last.op = "getAtomsByChain"
  /\ last.id = <<"a">>
  /\ Len(In) = 3
  /\ In[1].chain = <<"A">> /\ In[2].chain = <<"a">> /\ In[3].chain = <<"A">>
  /\ arrs[last.ret] = <<arrs[last.arg][2]>>

\* C17: getProteinInfo returns the length of the list as totalAtoms, the
\* number of records named "CA" as residueCount, and as chains the sorted
\* distinct chains of the whole list, not of the backbone records.
C17_SummaryOfWholeList ==
  (pc = "selection" /\ last.op = "getProteinInfo") =>
    /\ last.ret.totalAtoms = Len(In)
    /\ last.ret.residueCount
         = Cardinality({i \in 1..Len(In) : In[i].name = <<"C", "A">>})
    /\ last.ret.residueCount = Len(getBackboneAtoms(In))
    /\ last.ret.chains = getChains(In)
    /\ {last.ret.chains[k] : k \in 1..Len(last.ret.chains)}
         = {In[i].chain : i \in 1..Len(In)}

C17_Witness ==
  /\ pc = "selection"
  /\ last.op = "getProteinInfo"
  /\ In = <<AtomFar, AtomOrigin>>
  /\ last.ret.totalAtoms = 2
  /\ last.ret.residueCount = 1
  /\ last.ret.chains = << <<"A">>, <<"B">> >>

AllChainIds == {<<>>, <<"A">>, <<"B">>, <<"a">>}

\* selectByChain(atoms, c1) ++ selectByChain(atoms, c2) ++ ...
RECURSIVE ConcatByChain(_, _)
ConcatByChain(atoms, ids) ==
  IF ids = <<>> THEN <<>>
  ELSE getAtomsByChain(atoms, Head(ids)) \o ConcatByChain(atoms, Tail(ids))

\* the lists of chain identifiers that name every chain of the records
CoveringIds(atoms) ==
  {ids \in SeqsUpTo(AllChainIds, Cardinality(AllChainIds)) :
     \A i \in 1..Len(atoms) : \E k \in 1..Len(ids) : ids[k] = atoms[i].chain}

\* C18: getChains of a list equals getChains of the concatenation of its
\* per-chain selections, for every list of chain identifiers that covers
\* the chains present, in whatever order.
C18_ChainsOfRegrouping ==
  last.op = "getChains" =>
    \A ids \in CoveringIds(In) :
      last.ret = getChains(ConcatByChain(In, ids))

C18_Witness ==
  /\ last.op = "getChains"
  /\ Len(In) = 3
  /\ In[1].chain = <<"B">> /\ In[2].chain = <<"A">> /\ In[3].chain = <<"B">>
  /\ last.ret = << <<"A">>, <<"B">> >>
  /\ ConcatByChain(In, << <<"B">>, <<"A">> >>) = <<In[1], In[3], In[2]>>

\* C19: a call of getBackboneAtoms, getChains, getAtomsByChain,
\* getProteinInfo, getBoundingBox or getMaxDimension changes no record and
\* no list that existed before it, and the same call made again returns a
\* list of the same records.
C19_Step ==
  /\ Len(objs') = Len(objs)
  /\ \A o \in 1..Len(objs) : objs'[o] = objs[o]
  /\ \A k \in 1..Len(arrs) : arrs'[k] = arrs[k]
  /\ (last'.op = "getBackboneAtoms" /\ last.op = "getBackboneAtoms"
        /\ last'.arg = last.arg)
       => arrs'[last'.ret] = arrs[last.ret]
  /\ (last'.op = "getAtomsByChain" /\ last.op = "getAtomsByChain"
        /\ last'.arg = last.arg /\ last'.id = last.id)
       => arrs'[last'.ret] = arrs[last.ret]
  /\ (last'.op \in {"getChains", "getProteinInfo", "getBoundingBox",
                     "getMaxDimension"}
        /\ last.op = last'.op /\ last'.arg = last.arg)
       => last'.ret = last.ret

C19_InputsUntouched == [][C19_Step]_vars

C19_Witness ==
  /\ pc = "selection"
  /\ last.op = "getBackboneAtoms"
  /\ objs = <<AtomFar, AtomHalf>>
  /\ arrs = << <<1, 2>>, <<2>>, <<2>> >>

(***************************************************************************)
(* Application: App keeps the loaded protein and the display options,      *)
(* Controls shows the two checkboxes, Protein fills the scene group.       *)
(***************************************************************************)
\* the values a property read of a colour table can give: a number, a
\* member inherited from Object.prototype (a function or object), undefined
JSNumber(n) == [kind |-> "number", number |-> n, member |-> <<>>]

Inherited(key) == [kind |-> "inherited", number |-> 0, member |-> key]

Undefined == [kind |-> "undefined", number |-> 0, member |-> <<>>]

\* the property names every object literal inherits
ObjectPrototype ==
  {<<"c", "o", "n", "s", "t", "r", "u", "c", "t", "o", "r">>,
   <<"t", "o", "S", "t", "r", "i", "n", "g">>,
   <<"t", "o", "L", "o", "c", "a", "l", "e", "S", "t", "r", "i", "n", "g">>,
   <<"v", "a", "l", "u", "e", "O", "f">>,
   <<"h", "a", "s", "O", "w", "n", "P", "r", "o", "p", "e", "r", "t", "y">>,
   <<"i", "s", "P", "r", "o", "t", "o", "t", "y", "p", "e", "O", "f">>,
   <<"p", "r", "o", "p", "e", "r", "t", "y", "I", "s", "E", "n", "u", "m", "e", "r", "a", "b", "l", "e">>,
   <<"_", "_", "p", "r", "o", "t", "o", "_", "_">>,
   <<"_", "_", "d", "e", "f", "i", "n", "e", "G", "e", "t", "t", "e", "r", "_", "_">>,
   <<"_", "_", "d", "e", "f", "i", "n", "e", "S", "e", "t", "t", "e", "r", "_", "_">>,
   <<"_", "_", "l", "o", "o", "k", "u", "p", "G", "e", "t", "t", "e", "r", "_", "_">>,
   <<"_", "_", "l", "o", "o", "k", "u", "p", "S", "e", "t", "t", "e", "r", "_", "_">>}

\* obj[key] for an object literal of numbers
Get(obj, key) ==
  IF key \in DOMAIN obj THEN JSNumber(obj[key])
  ELSE IF key \in ObjectPrototype THEN Inherited(key)
  ELSE Undefined

Truthy(v) == v.kind = "inherited" \/ (v.kind = "number" /\ v.number # 0)

\* a || b
Or(a, b) == IF Truthy(a) THEN a ELSE b

Default == <<"d", "e", "f", "a", "u", "l", "t">>

getResidueColor(residueName) ==
  Or(Get(aminoAcidColors, residueName), Get(aminoAcidColors, Default))

getChainColor(chain) ==
  Or(Get(chainColors, chain), Get(chainColors, Default))

\* new THREE.Line over one vertex per atom, bright green
createBackboneLine(atoms) ==
  [type     |-> "Line",
   geometry |-> [points   |-> [i \in 1..Len(atoms) |-> Point(atoms[i])],
                 disposed |-> FALSE],
   material |-> [color |-> JSNumber(65280), linewidth |-> 2,
                 disposed |-> FALSE]]

\* one THREE.Mesh per atom, placed at the atom and coloured by residue (the
\* default colorScheme)
createAtomSpheres(atoms) ==
  [i \in 1..Len(atoms) |->
     [type     |-> "Mesh",
      geometry |-> [radius |-> Rat(1, 2), widthSegments |-> 16,
                    heightSegments |-> 16, disposed |-> FALSE],
      material |-> [color |-> getResidueColor(atoms[i].residue),
                    disposed |-> FALSE],
      position |-> Point(atoms[i]),
      userData |-> [atomInfo   |-> atoms[i],
                    residue    |-> atoms[i].residue,
                    residueNum |-> atoms[i].residueNum,
                    chain      |-> atoms[i].chain]]]

\* child.geometry.dispose(); child.material.dispose()
Dispose(child) ==
  [child EXCEPT !.geometry.disposed = TRUE, !.material.disposed = TRUE]

HeaderLine ==
  <<"H", "E", "A", "D", "E", "R", " ", " ", " ", " ", "C", "R", "A", "M", "B", "I", "N">>

\* the files the user loads, as lists of lines
FileA == <<FormatLine(SampleAtom), FormatLine(WaterAtom)>>

FileB == <<FormatLine(SampleAtom), FormatLine(SameSerialAtom)>>

FileC ==
  <<FormatLine(SameSerialAtom), FormatLine(NoChainAtom), FormatLine(SampleAtom)>>

FileD == <<FormatLine(BadX), FormatLine(SampleAtom)>>

FileE == <<FormatLine(WaterAtom)>>

FileF == <<HeaderLine>>

ViewFiles == {FileA, FileB, FileC, FileD, FileE, FileF}

ViewTexts == {Join(f) : f \in ViewFiles}

InitView ==
  /\ NoApp
  /\ NewTables
  /\ NoUpload
  /\ pc = "shown"
  /\ pdbText = <<>>
  /\ srcLines = <<>>
  /\ parsed = <<>>
  /\ objs = NoObjs
  /\ arrs = <<>>
  /\ last = NoLast

\* variant: the statistics are taken from the backbone list
HandleFileLoaded_InfoOfBackbone(text) ==
  /\ pc \in {"shown", "newAtoms", "newOptions"}
  /\ LET allAtoms == parsePDB(text)
         backbone == centerProtein(getBackboneAtoms(allAtoms))
         info     == getProteinInfo(backbone)
     IN  /\ backboneAtoms' = Loaded(backbone)
         /\ proteinInfo' = Loaded(info)
  /\ pdbText' = text
  /\ pc' = "newAtoms"
  /\ UNCHANGED <<showBackbone, showAtoms, group, removed>>
  /\ UNCHANGED <<srcLines, parsed>>
  /\ UNCHANGED geomVars
  /\ UNCHANGED tableVars

\* handleFileLoaded(pdbText): both state updates are committed by the next
\* render; pdbText keeps the argument of the last call
HandleFileLoaded(text) ==
  /\ pc \in {"shown", "newAtoms", "newOptions"}
  /\ LET allAtoms == parsePDB(text)
         backbone == centerProtein(getBackboneAtoms(allAtoms))
         info     == getProteinInfo(allAtoms)
     IN  /\ backboneAtoms' = Loaded(backbone)
         /\ proteinInfo' = Loaded(info)
  /\ pdbText' = text
  /\ pc' = "newAtoms"
  /\ UNCHANGED <<showBackbone, showAtoms, group, removed>>
  /\ UNCHANGED <<srcLines, parsed>>
  /\ UNCHANGED geomVars
  /\ UNCHANGED tableVars

\* the onChange of the first checkbox: onShowBackboneChange is
\* setShowBackbone and e.target.checked is the opposite of what is shown;
\* Controls is rendered only once proteinInfo is set
ToggleBackbone ==
  /\ pc \in {"shown", "newAtoms", "newOptions"}
  /\ ~proteinInfo.null
  /\ showBackbone' = ~showBackbone
  /\ pc' = IF pc = "newAtoms" THEN "newAtoms" ELSE "newOptions"
  /\ UNCHANGED <<backboneAtoms, proteinInfo, showAtoms, group, removed>>
  /\ UNCHANGED <<pdbText, srcLines, parsed>>
  /\ UNCHANGED geomVars
  /\ UNCHANGED <<tableVars, uploadVars>>

\* the onChange of the second checkbox
ToggleAtoms ==
  /\ pc \in {"shown", "newAtoms", "newOptions"}
  /\ ~proteinInfo.null
  /\ showAtoms' = ~showAtoms
  /\ pc' = IF pc = "newAtoms" THEN "newAtoms" ELSE "newOptions"
  /\ UNCHANGED <<backboneAtoms, proteinInfo, showBackbone, group, removed>>
  /\ UNCHANGED <<pdbText, srcLines, parsed>>
  /\ UNCHANGED geomVars
  /\ UNCHANGED <<tableVars, uploadVars>>

\* variant: the children of the earlier list are left in the group
ProteinEffect_NoClear ==
  /\ pc = "newAtoms"
  /\ group' = IF Len(backboneAtoms.value) = 0 THEN <<>>
              ELSE group \o <<createBackboneLine(backboneAtoms.value)>>
                     \o createAtomSpheres(backboneAtoms.value)
  /\ removed' = <<>>
  /\ pc' = "shown"
  /\ UNCHANGED <<backboneAtoms, proteinInfo, showBackbone, showAtoms>>
  /\ UNCHANGED <<pdbText, srcLines, parsed>>
  /\ UNCHANGED geomVars
  /\ UNCHANGED <<tableVars, uploadVars>>

\* the render after backboneAtoms changed: App passes backboneAtoms alone to
\* ProteinViewer, which mounts Protein for a non-empty list. For a
\* non-empty list the cleanup of the earlier run disposes the children, the
\* effect takes each child out of the group and disposes it, then adds the
\* line and the spheres. For an empty list Protein is unmounted and its
\* group leaves the scene; whether the cleanup still finds groupRef.current
\* and disposes the children is up to React
ProteinEffect ==
  /\ pc = "newAtoms"
  /\ IF Len(backboneAtoms.value) = 0
       THEN /\ group' = <<>>
            /\ \E attached \in BOOLEAN :
                 removed' = IF attached
                              THEN [i \in 1..Len(group) |-> Dispose(group[i])]
                              ELSE group
       ELSE /\ group' = <<createBackboneLine(backboneAtoms.value)>>
                          \o createAtomSpheres(backboneAtoms.value)
            /\ removed' = [i \in 1..Len(group) |-> Dispose(group[i])]
  /\ pc' = "shown"
  /\ UNCHANGED <<backboneAtoms, proteinInfo, showBackbone, showAtoms>>
  /\ UNCHANGED <<pdbText, srcLines, parsed>>
  /\ UNCHANGED geomVars
  /\ UNCHANGED <<tableVars, uploadVars>>

\* the render after a display option alone changed: the props of
\* ProteinViewer and the dependency of the effect, [backboneAtoms], are the
\* same, so the effect does not run
RenderOptions ==
  /\ pc = "newOptions"
  /\ pc' = "shown"
  /\ UNCHANGED appVars
  /\ UNCHANGED <<tableVars, uploadVars>>
  /\ UNCHANGED <<pdbText, srcLines, parsed>>
  /\ UNCHANGED geomVars

NextView ==
  \/ \E text \in ViewTexts :
       HandleFileLoaded(text) /\ UNCHANGED uploadVars
  \/ ToggleBackbone
  \/ ToggleAtoms
  \/ ProteinEffect
  \/ RenderOptions

SpecView == InitView /\ [][NextView]_vars

HasLine == \E i \in 1..Len(group) : group[i].type = "Line"

HasSphere == \E i \in 1..Len(group) : group[i].type = "Mesh"

\* C20: once the screen is up to date, the backbone line is in the scene
\* exactly when 'Show Backbone Line' is checked and the atom spheres exactly
\* when 'Show Atom Spheres' is checked, for a protein with backbone atoms.
C20_TogglesDecideRendering ==
  (pc = "shown" /\ ~backboneAtoms.null /\ Len(backboneAtoms.value) > 0) =>
    /\ HasLine <=> showBackbone
    /\ HasSphere <=> showAtoms

(***************************************************************************)
(* Properties of the application state                                     *)
(***************************************************************************)
\* the record of a descriptor with the given coordinates
Placed(d, x, y, z) == [Expected(d) EXCEPT !.x = x, !.y = y, !.z = z]

\* SampleAtom (11.104, 13.207, 2.052) and SameSerialAtom (1, 100, 0.5)
\* around their mean (6.052, 56.6035, 1.276)
SampleOfTwo ==
  Placed(SampleAtom, Rat(5052, 1000), Rat(-433965, 10000), Rat(776, 1000))

SameSerialOfTwo ==
  Placed(SameSerialAtom, Rat(-5052, 1000), Rat(433965, 10000), Rat(-776, 1000))

\* what App holds after the file f, worked out by hand
StateAfter(f) ==
  CASE f = FileA ->
         [backbone |-> <<Placed(SampleAtom, Num(0), Num(0), Num(0))>>,
          info |-> [totalAtoms |-> 2, residueCount |-> 1, chainCount |-> 2,
                    chains |-> << <<"A">>, <<"B">> >>]]
    [] f = FileB ->
         [backbone |-> <<SampleOfTwo, SameSerialOfTwo>>,
          info |-> [totalAtoms |-> 2, residueCount |-> 2, chainCount |-> 1,
                    chains |-> << <<"A">> >>]]
    [] f = FileC ->
         [backbone |-> <<SameSerialOfTwo, SampleOfTwo>>,
          info |-> [totalAtoms |-> 3, residueCount |-> 2, chainCount |-> 2,
                    chains |-> << <<>>, <<"A">> >>]]
    [] f = FileD ->
         [backbone |-> <<Placed(SampleAtom, NaN, Num(0), Num(0)),
                         Placed(SampleAtom, NaN, Num(0), Num(0))>>,
          info |-> [totalAtoms |-> 2, residueCount |-> 2, chainCount |-> 1,
                    chains |-> << <<"A">> >>]]
    [] f = FileE ->
         [backbone |-> <<>>,
          info |-> [totalAtoms |-> 1, residueCount |-> 0, chainCount |-> 1,
                    chains |-> << <<"B">> >>]]
    [] f = FileF ->
         [backbone |-> <<>>,
          info |-> [totalAtoms |-> 0, residueCount |-> 0, chainCount |-> 0,
                    chains |-> <<>>]]

\* C21: after handleFileLoaded(text), backboneAtoms is the centred backbone
\* of the records of text and proteinInfo the summary of all records of
\* text; after any sequence of loads both come from the text handled last.
C21_StateOfLastFile ==
  /\ backboneAtoms.null <=> proteinInfo.null
  /\ backboneAtoms.null <=> pdbText = <<>>
  /\ ~backboneAtoms.null =>
       \A f \in ViewFiles :
         pdbText = Join(f) =>
           /\ backboneAtoms.value = StateAfter(f).backbone
           /\ proteinInfo.value = StateAfter(f).info

C21_Witness ==
  /\ pdbText = Join(FileA)
  /\ pc = "newAtoms"
  /\ Len(group) = 3
  /\ proteinInfo.value.totalAtoms = 2
  /\ Len(backboneAtoms.value) = 1

\* a * b of two numbers
NumMul(a, b) ==
  IF a.nan \/ b.nan THEN NaN ELSE Rat(a.n * b.n, a.d * b.d)

\* the useMemo of ProteinViewer for the backboneAtoms App holds
cameraDistance ==
  IF backboneAtoms.null \/ Len(backboneAtoms.value) = 0 THEN Num(50)
  ELSE LET maxDim == getMaxDimension(backboneAtoms.value)
       IN  MathMax(Num(30), NumMul(maxDim, Num(2)))

\* C22: the camera distance of the viewer is a number and at least 30: 50
\* without backbone atoms, otherwise the larger of 30 and twice the maximal
\* extent, and a default when a coordinate of the backbone is missing.
C22_CameraDistanceValid ==
  ~backboneAtoms.null =>
    /\ IsFinite(cameraDistance)
    /\ NumLeq(Num(30), cameraDistance)
    /\ Len(backboneAtoms.value) = 0 => cameraDistance = Num(50)

\* C23: once the Protein effect has run for a list with at least one atom,
\* the group holds one line through the atoms and one sphere per atom at
\* the atom's position, nothing of an earlier list, and every object the
\* effect took out of the group has its geometry and material disposed.
C23_SceneOfLastList ==
  (pc = "shown" /\ ~backboneAtoms.null /\ Len(backboneAtoms.value) > 0) =>
    LET atoms == backboneAtoms.value
    IN  /\ Len(group) = Len(atoms) + 1
        /\ Cardinality({i \in 1..Len(group) : group[i].type = "Line"}) = 1
        /\ Cardinality({i \in 1..Len(group) : group[i].type = "Mesh"})
             = Len(atoms)
        /\ \A i \in 1..Len(group) :
             group[i].type = "Line" =>
               /\ Len(group[i].geometry.points) = Len(atoms)
               /\ \A k \in 1..Len(atoms) :
                    /\ group[i].geometry.points[k].x = atoms[k].x
                    /\ group[i].geometry.points[k].y = atoms[k].y
                    /\ group[i].geometry.points[k].z = atoms[k].z
        /\ \A k \in 1..Len(atoms) :
             \E i \in 1..Len(group) :
               /\ group[i].type = "Mesh"
               /\ group[i].userData.atomInfo = atoms[k]
               /\ group[i].position.x = atoms[k].x
               /\ group[i].position.y = atoms[k].y
               /\ group[i].position.z = atoms[k].z
        /\ \A i \in 1..Len(removed) :
             removed[i].geometry.disposed /\ removed[i].material.disposed

C23_Witness ==
  /\ pc = "shown"
  /\ pdbText = Join(FileB)
  /\ Len(group) = 3
  /\ Len(removed) = 2
  /\ removed[2].type = "Mesh"
  /\ removed[2].geometry.disposed
  /\ removed[2].position.x = Num(0)
  /\ group[2].position.x = Rat(5052, 1000)

(***************************************************************************)
(* File upload: every selection starts a FileReader of its own, and the    *)
(* readers finish in any order.                                            *)
(***************************************************************************)
UploadFiles == {FileA, FileB, FileE}

UploadTexts == {Join(f) : f \in UploadFiles}

Without(q, i) == SubSeq(q, 1, i - 1) \o SubSeq(q, i + 1, Len(q))

\* handleFileChange for a selected file: a new FileReader, its handlers,
\* reader.readAsText(file)
HandleFileChange(text) ==
  /\ pc \in {"shown", "newAtoms"}
  /\ Len(readers) < MaxReads
  /\ readers' = Append(readers, text)
  /\ selected' = Loaded(text)
  /\ UNCHANGED alerted
  /\ UNCHANGED <<parseVars, geomVars, appVars, tableVars>>

\* reader.onload of the i-th reader: onFileLoaded(e.target.result)
OnLoad(i) ==
  /\ HandleFileLoaded(readers[i])
  /\ readers' = Without(readers, i)
  /\ UNCHANGED <<selected, alerted>>

\* reader.onerror of the i-th reader: the alert, and nothing is loaded
OnError(i) ==
  /\ pc \in {"shown", "newAtoms"}
  /\ readers' = Without(readers, i)
  /\ alerted' = TRUE
  /\ UNCHANGED selected
  /\ UNCHANGED <<parseVars, geomVars, appVars, tableVars>>

NextUpload ==
  \/ \E text \in UploadTexts : HandleFileChange(text)
  \/ \E i \in 1..Len(readers) : OnLoad(i)
  \/ \E i \in 1..Len(readers) : OnError(i)
  \/ ProteinEffect

SpecUpload == InitView /\ [][NextUpload]_vars

\* C24: when every read has completed, the protein held by App is that of
\* the file selected last, in whatever order the reads completed.
C24_LastSelectedIsShown ==
  (readers = <<>> /\ ~selected.null /\ ~alerted) =>
    \E f \in UploadFiles :
      /\ selected.value = Join(f)
      /\ ~backboneAtoms.null
      /\ backboneAtoms.value = StateAfter(f).backbone
      /\ proteinInfo.value = StateAfter(f).info

(***************************************************************************)
(* Colour lookups: getResidueColor and getChainColor are called with       *)
(* strings of every sort.                                                  *)
(***************************************************************************)
\* strings that are neither keys of the tables nor inherited names
OtherNames ==
  {<<>>,
   <<"X", "Y", "Z">>,
   <<"a", "l", "a">>,
   <<"H", "O", "H">>,
   <<"U", "N", "K">>,
   <<"Z">>,
   <<"a">>,
   <<"A", "L">>,
   <<"A", "L", "A", "A">>,
   <<" ", "A", "L", "A">>,
   <<"K">>,
   <<"b">>,
   <<"1">>,
   <<"D", "e", "f", "a", "u", "l", "t">>,
   <<"D", "E", "F", "A", "U", "L", "T">>,
   <<"M", "S", "E">>}

ColorInputs ==
  DOMAIN AminoAcidColors \cup DOMAIN ChainColors
    \cup ObjectPrototype \cup OtherNames

InitColor ==
  /\ NoApp
  /\ NewTables
  /\ NoUpload
  /\ pc = "colors"
  /\ pdbText = <<>>
  /\ srcLines = <<>>
  /\ parsed = <<>>
  /\ objs = NoObjs
  /\ arrs = <<>>
  /\ last = NoLast

GetResidueColor(residueName) ==
  /\ pc = "colors"
  /\ last' = [op |-> "getResidueColor", arg |-> residueName,
              ret |-> getResidueColor(residueName)]
  /\ UNCHANGED <<objs, arrs>>
  /\ UNCHANGED <<parseVars, appVars, tableVars, uploadVars>>

GetChainColor(chain) ==
  /\ pc = "colors"
  /\ last' = [op |-> "getChainColor", arg |-> chain,
              ret |-> getChainColor(chain)]
  /\ UNCHANGED <<objs, arrs>>
  /\ UNCHANGED <<parseVars, appVars, tableVars, uploadVars>>

NextColor ==
  \/ \E residueName \in ColorInputs : GetResidueColor(residueName)
  \/ \E chain \in ColorInputs : GetChainColor(chain)

SpecColor == InitColor /\ [][NextColor]_vars

\* the colour of a key: that of the table as written in the source, or the
\* fallback for a key that is not listed
Listed(table, key, fallback) ==
  IF key \in DOMAIN table THEN JSNumber(table[key]) ELSE JSNumber(fallback)

\* C25: getResidueColor and getChainColor return the table's colour for a
\* listed key and the default colour (0x808080, 0x95a5a6) for every other
\* string, the empty string included, and leave the tables as they are.
C25_TotalLookup ==
  /\ last.op = "getResidueColor" =>
       last.ret = Listed(AminoAcidColors, last.arg, 8421504)
  /\ last.op = "getChainColor" =>
       last.ret = Listed(ChainColors, last.arg, 9807270)
  /\ aminoAcidColors = AminoAcidColors
  /\ chainColors = ChainColors

====
